---------------------------- MODULE Spec2Model ----------------------------
(***************************************************************************)
(* Zhang-Shasha tree edit distance (src/src/lib.rs).                       *)
(*                                                                         *)
(* A TreeNode owns its children through Box pointers; the model keeps a    *)
(* whole tree as a heap: a sequence of node records indexed by address,    *)
(* the root at address 1, each record holding the label and the sequence   *)
(* of the children's addresses.  Node identity is the address, as in       *)
(* Tree::id, which compares raw pointers.                                  *)
(*                                                                         *)
(* Vec and DMatrix indices are 0-based in the source and stay 0-based in   *)
(* the model: a Vec is a sequence read through At, a DMatrix a function    *)
(* over 0..rows-1 and 0..cols-1.                                           *)
(*                                                                         *)
(* The driver is the one of the tests: build the index of both trees,      *)
(* then compute the distance in both argument orders.                      *)
(***************************************************************************)
EXTENDS Integers, Sequences, FiniteSets, TLC

VARIABLES
    root_node,        \* root_node[k]: the heap of tree k (k = 1, 2)
    tree,             \* tree[k]: Tree::new(&root_node[k]), or NoTree
    insertion_cost,
    deletion_cost,
    relabeling_cost,
    self,             \* which tree is the receiver of the running call
    td,               \* the tree distance table of the running call
    resolved,         \* the td cells written so far by the running call
    kx, ky,           \* positions of x and y in the two key_roots loops
    fd,               \* the forest distance table of the running forest_distance
    i, j,             \* the cell loops of forest_distance
    wrapped,          \* an addition has wrapped around (release profile)
    result,           \* result[k]: what the call with receiver k returned
    pc

vars == <<root_node, tree, insertion_cost, deletion_cost, relabeling_cost,
          self, td, resolved, kx, ky, fd, i, j, wrapped, result, pc>>

-----------------------------------------------------------------------------
(* Bounds of the model *)

\* the largest number of nodes of an enumerated input tree
MaxNodes == 3

\* the largest number of nodes of an enumerated single-label input tree
MaxShapeNodes == 4

\* the largest number of nodes of an input tree when every cost triple is tried
MaxWeightedNodes == 2

\* the width in bits of the cost type (u64 in the source, scaled down)
CostBits == 4

-----------------------------------------------------------------------------
(* Vec, DMatrix and u64 *)

At(v, k) == v[k + 1]

Last(v) == v[Len(v)]

Front(v) == SubSeq(v, 1, Len(v) - 1)

InVec(v, k) == k >= 0 /\ k < Len(v)

Zeros(rows, cols) == [r \in 0 .. rows - 1 |-> [c \in 0 .. cols - 1 |-> 0]]

InMatrix(m, r, c) == r \in DOMAIN m /\ c \in DOMAIN m[r]

Min(a, b) == IF a <= b THEN a ELSE b

RECURSIVE Pow2(_)
Pow2(n) == IF n = 0 THEN 1 ELSE 2 * Pow2(n - 1)

U64Modulus == Pow2(CostBits)

U64Max == U64Modulus - 1

\* a + b on u64 when overflow checks are off
WrappingAdd(a, b) == (a + b) % U64Modulus

Overflows(a, b) == a + b >= U64Modulus

-----------------------------------------------------------------------------
(* TreeNode: construction *)

\* The children of the node at address a in a tree whose nodes, numbered
\* 1..n in pre-order, lie at the depths depth[1..n]: the nodes one level
\* below a that come before the next node at a's level or above.
ChildAddresses(depth, a) ==
    LET n == Len(depth)
        kids == {k \in a + 1 .. n :
                    /\ depth[k] = depth[a] + 1
                    /\ \A m \in a + 1 .. k - 1 : depth[m] > depth[a]}
        nth[c \in 1 .. Cardinality(kids)] ==
            CHOOSE k \in kids : Cardinality({m \in kids : m < k}) = c - 1
    IN  [c \in 1 .. Cardinality(kids) |-> nth[c]]

\* TreeNode::new(label) for every node, the children attached in order
TreeNode(depth, labels) ==
    [a \in 1 .. Len(depth) |->
        [label |-> labels[a], children |-> ChildAddresses(depth, a)]]

\* the depth sequences of the ordered trees with n nodes
Shapes(n) ==
    {d \in [1 .. n -> 0 .. n - 1] :
        /\ d[1] = 0
        /\ \A k \in 2 .. n : d[k] >= 1 /\ d[k] <= d[k - 1] + 1}

Labels == {"A", "B"}

\* every tree of at most n nodes labelled over labels
TreesUpTo(n, labels) ==
    UNION {{TreeNode(d, l) : d \in Shapes(m), l \in [1 .. m -> labels]} :
           m \in 1 .. n}

SmallTrees == TreesUpTo(MaxNodes, Labels)

\* shapes only: every node labelled alike
ShapeTrees == TreesUpTo(MaxShapeNodes, {"A"})

TinyTrees == TreesUpTo(MaxWeightedNodes, Labels)

\* the trees of the tests
FixtureABCEFD == TreeNode(<<0, 1, 1, 2, 2, 1>>, <<"A", "B", "C", "E", "F", "D">>)

FixtureSelf == TreeNode(<<0, 1, 1, 2, 2, 1>>, <<"A", "B", "C", "C1", "C2", "D">>)

FixtureLeafX == TreeNode(<<0>>, <<"X">>)

FixtureLeafA == TreeNode(<<0>>, <<"A">>)

FixtureLeafB == TreeNode(<<0>>, <<"B">>)

FixtureABCDE == TreeNode(<<0, 1, 1, 1, 2>>, <<"A", "B", "C", "D", "E">>)

FixtureXCYZ == TreeNode(<<0, 1, 1, 2>>, <<"X", "C", "Y", "Z">>)

FixtureTrees ==
    {FixtureABCEFD, FixtureSelf, FixtureLeafX, FixtureLeafA, FixtureLeafB,
     FixtureABCDE, FixtureXCYZ}

-----------------------------------------------------------------------------
(* TreeNode::post_order and the index built by Tree::new *)

RECURSIVE post_order(_, _)
RECURSIVE ExtendChildren(_, _, _)

\* the loop of post_order: result.extend(child.post_order()) for each child
ExtendChildren(h, children, c) ==
    IF c > Len(children) THEN <<>>
    ELSE post_order(h, children[c]) \o ExtendChildren(h, children, c + 1)

\* the node pushed before its children
pre_order(h, a) == <<a>> \o ExtendChildren(h, h[a].children, 1)

\* the children's post orders, left to right, then the node itself
post_order(h, a) == ExtendChildren(h, h[a].children, 1) \o <<a>>

\* Tree::id: the position of the node (by address) in post_order
id(po, node) ==
    CHOOSE k \in 0 .. Len(po) - 1 :
        /\ At(po, k) = node
        /\ \A m \in 0 .. k - 1 : At(po, m) # node

\* the subtree size taken for the offset
LeftMostChildOffByOne(idx, len) == idx - len

\* idx - (node.post_order().len() - 1)
LeftMostChild(idx, len) == idx - (len - 1)

left_most_leaf_descendant(h, po) ==
    [p \in 1 .. Len(po) |-> LeftMostChild(p - 1, Len(post_order(h, po[p])))]

\* every child taken for a key root
IsAnyChild(idx) == idx >= 0

\* the test `idx > 0` that makes a child a key root
IsLaterChild(idx) == idx > 0

RECURSIVE LaterChildren(_, _, _)
\* the ids pushed on key_roots while iterating the children of one node
LaterChildren(po, children, c) ==
    IF c > Len(children) THEN <<>>
    ELSE (IF IsLaterChild(c - 1) THEN <<id(po, children[c])>> ELSE <<>>)
         \o LaterChildren(po, children, c + 1)

AllChildren(po, children) == [c \in 1 .. Len(children) |-> id(po, children[c])]

RECURSIVE Insert(_, _)
Insert(sorted, x) ==
    IF sorted = <<>> THEN <<x>>
    ELSE IF x < Head(sorted) THEN <<x>> \o sorted
    ELSE <<Head(sorted)>> \o Insert(Tail(sorted), x)

RECURSIVE SortDescending(_)
\* the key roots sorted the other way round
SortDescending(v) ==
    IF v = <<>> THEN <<>>
    ELSE LET s == SortDescending(Tail(v))
             before == SelectSeq(s, LAMBDA e : e > Head(v))
             after == SelectSeq(s, LAMBDA e : e <= Head(v))
         IN  before \o <<Head(v)>> \o after

RECURSIVE Sort(_)
\* key_roots.sort(): ascending, duplicates kept
Sort(v) == IF v = <<>> THEN <<>> ELSE Insert(Sort(Tail(v)), Head(v))

RECURSIVE KeyrootsLoop(_, _, _, _)
\* while !to_look_at.is_empty() { ... }
KeyrootsLoop(h, po, key_roots, to_look_at) ==
    IF to_look_at = <<>> THEN key_roots
    ELSE LET n == Last(to_look_at)
             children == h[At(po, n)].children
         IN  KeyrootsLoop(h, po,
                          key_roots \o LaterChildren(po, children, 1),
                          Front(to_look_at) \o AllChildren(po, children))

keyroots(h, po) ==
    Sort(KeyrootsLoop(h, po, <<Len(po) - 1>>, <<Len(po) - 1>>))

\* Tree::new
TreeNew(h) ==
    LET po == post_order(h, 1)
    IN  [post_order |-> po,
         left_most_leaf_descendant |-> left_most_leaf_descendant(h, po),
         key_roots |-> keyroots(h, po)]

NoTree == [post_order |-> <<>>, left_most_leaf_descendant |-> <<>>, key_roots |-> <<>>]

-----------------------------------------------------------------------------
(* The distance engine: forest_distance, one loop iteration at a time *)

\* the comparison of label_cmp, inverted
label_cmp_inverted(l1, l2, relabeling) == IF l1 # l2 THEN 0 ELSE relabeling

label_cmp(l1, l2, relabeling) == IF l1 = l2 THEN 0 ELSE relabeling

\* the receiver and the argument of the running call
Self == tree[self]

Other == tree[3 - self]

SelfRoot == root_node[self]

OtherRoot == root_node[3 - self]

key_root_1 == At(Self.key_roots, kx)

key_root_2 == At(Other.key_roots, ky)

l1_i == At(Self.left_most_leaf_descendant, key_root_1)

l2_j == At(Other.left_most_leaf_descendant, key_root_2)

\* a table one row (column) short
FdSizeShort(key_root, l) == key_root - l + 1

\* DMatrix::zeros(key_root_1 - l1_i + 2, key_root_2 - l2_j + 2): the number
\* of rows (columns) of fd for a key root and its left-most leaf
FdSize(key_root, l) == key_root - l + 2

\* the end of the loops `for i in 1..(key_root - l + 2)`
LoopEnd(key_root, l) == key_root - l + 2

\* the post-order index of the node that row (column) c of fd stands for
NodeOf(c, l) == c + l - 1

\* the check of the first tree alone
FirstIsTree(lmld1, lmld2, l1, l2) == lmld1 = l1

\* "check if t1 and t2 are both trees"
BothTrees(lmld1, lmld2, l1, l2) == lmld1 = l1 /\ lmld2 = l2

\* the first column (row) of fd: fd[k] = fd[k - 1] + cost, wrapping
Border(size, cost) ==
    LET b[k \in 0 .. size - 1] ==
            IF k = 0 THEN 0 ELSE WrappingAdd(b[k - 1], cost)
    IN  b

BorderOverflows(size, cost) ==
    \E k \in 1 .. size - 1 : Overflows(Border(size, cost)[k - 1], cost)

\* What one iteration of the cell loops reads and computes at (i, j):
\*   index_ok: every index it uses is inside its Vec or DMatrix and no
\*             usize subtraction goes below zero;
\*   overflow: one of its three additions exceeds the cost type;
\*   value:    the (wrapped) minimum it stores in fd[(i, j)];
\*   is_tree:  the branch taken.
Cell(t1, t2, h1, h2, key1, key2, table, dist, ins, del, rel, ci, cj) ==
    LET l1 == At(t1.left_most_leaf_descendant, key1)
        l2 == At(t2.left_most_leaf_descendant, key2)
        ni == NodeOf(ci, l1)
        nj == NodeOf(cj, l2)
        nodes_ok == /\ InVec(t1.left_most_leaf_descendant, ni)
                    /\ InVec(t2.left_most_leaf_descendant, nj)
        lm1 == At(t1.left_most_leaf_descendant, ni)
        lm2 == At(t2.left_most_leaf_descendant, nj)
        is_tree == nodes_ok /\ BothTrees(lm1, lm2, l1, l2)
        di == lm1 - l1
        dj == lm2 - l2
        index_ok ==
            /\ nodes_ok
            /\ InMatrix(table, ci - 1, cj)
            /\ InMatrix(table, ci, cj - 1)
            /\ InMatrix(table, ci, cj)
            /\ InMatrix(dist, ni, nj)
            /\ IF is_tree
               THEN /\ InMatrix(table, ci - 1, cj - 1)
                    /\ InVec(t1.post_order, ni)
                    /\ InVec(t2.post_order, nj)
               ELSE /\ di >= 0
                    /\ dj >= 0
                    /\ InMatrix(table, di, dj)
        a1 == table[ci - 1][cj]
        b1 == table[ci][cj - 1]
        c1 == IF is_tree THEN table[ci - 1][cj - 1] ELSE table[di][dj]
        c2 == IF is_tree
              THEN label_cmp(h1[At(t1.post_order, ni)].label,
                             h2[At(t2.post_order, nj)].label, rel)
              ELSE dist[ni][nj]
    IN  [index_ok |-> index_ok,
         is_tree |-> is_tree,
         ni |-> ni, nj |-> nj, di |-> di, dj |-> dj,
         overflow |-> index_ok /\ (\/ Overflows(a1, del)
                                   \/ Overflows(b1, ins)
                                   \/ Overflows(c1, c2)),
         value |-> IF index_ok
                   THEN Min(Min(WrappingAdd(a1, del), WrappingAdd(b1, ins)),
                            WrappingAdd(c1, c2))
                   ELSE 0]

\* the iteration the running forest_distance is about to make
Current ==
    Cell(Self, Other, SelfRoot, OtherRoot, key_root_1, key_root_2, fd, td,
         insertion_cost, deletion_cost, relabeling_cost, i, j)

\* An addition that exceeds the cost type panics when the build checks
\* overflow (debug) and wraps when it does not (release); a run that has
\* wrapped once is a release run.
OverflowOutcomes(overflow) ==
    IF ~overflow THEN {"ok"}
    ELSE IF wrapped THEN {"wrap"}
    ELSE {"panic", "wrap"}

-----------------------------------------------------------------------------
(* The state machine *)

NoMatrix == Zeros(0, 0)

InitWith(trees, costs) ==
    /\ root_node \in [1 .. 2 -> trees]
    /\ \E c \in costs : /\ insertion_cost = c[1]
                        /\ deletion_cost = c[2]
                        /\ relabeling_cost = c[3]
    /\ tree = [k \in 1 .. 2 |-> NoTree]
    /\ self = 1
    /\ td = NoMatrix
    /\ resolved = {}
    /\ kx = 0
    /\ ky = 0
    /\ fd = NoMatrix
    /\ i = 0
    /\ j = 0
    /\ wrapped = FALSE
    /\ result = <<>>
    /\ pc = "new"

\* let tree_k = Tree::new(&tree_k_root_node), for k = 1 then 2
New ==
    /\ pc = "new"
    /\ LET k == IF tree[1] = NoTree THEN 1 ELSE 2
       IN  /\ tree' = [tree EXCEPT ![k] = TreeNew(root_node[k])]
           /\ pc' = IF k = 2 THEN "call" ELSE "new"
    /\ UNCHANGED <<root_node, insertion_cost, deletion_cost, relabeling_cost,
                   self, td, resolved, kx, ky, fd, i, j, wrapped, result>>

\* weighted_tree_edit_distance: td = zeros, the first pair of key roots
Call ==
    /\ pc = "call"
    /\ td' = Zeros(Len(Self.post_order), Len(Other.post_order))
    /\ resolved' = {}
    /\ kx' = 0
    /\ ky' = 0
    /\ pc' = "forest"
    /\ UNCHANGED <<root_node, tree, insertion_cost, deletion_cost,
                   relabeling_cost, self, fd, i, j, wrapped, result>>

\* forest_distance, up to the cell loops: fd = zeros, its first column and row
ForestBorders ==
    /\ pc = "forest"
    /\ LET rows == FdSize(key_root_1, l1_i)
           cols == FdSize(key_root_2, l2_j)
           iend == LoopEnd(key_root_1, l1_i)
           jend == LoopEnd(key_root_2, l2_j)
           col0 == Border(iend, deletion_cost)
           row0 == Border(jend, insertion_cost)
           overflow == \/ BorderOverflows(iend, deletion_cost)
                       \/ BorderOverflows(jend, insertion_cost)
       IN  IF iend > rows \/ jend > cols
           THEN /\ pc' = "index_panic"
                /\ UNCHANGED <<fd, i, j, wrapped>>
           ELSE
           \E outcome \in OverflowOutcomes(overflow) :
              IF outcome = "panic"
              THEN /\ pc' = "overflow_panic"
                   /\ UNCHANGED <<fd, i, j, wrapped>>
              ELSE /\ fd' = [r \in 0 .. rows - 1 |->
                               [c \in 0 .. cols - 1 |->
                                  IF c = 0 /\ r < iend THEN col0[r]
                                  ELSE IF r = 0 /\ c < jend THEN row0[c]
                                  ELSE 0]]
                   /\ i' = 1
                   /\ j' = 1
                   /\ wrapped' = (wrapped \/ outcome = "wrap")
                   /\ pc' = "cell"
    /\ UNCHANGED <<root_node, tree, insertion_cost, deletion_cost,
                   relabeling_cost, self, td, resolved, kx, ky, result>>

\* one iteration of the cell loops of forest_distance
ForestCell ==
    /\ pc = "cell"
    /\ LET cell == Current
           iend == LoopEnd(key_root_1, l1_i)
           jend == LoopEnd(key_root_2, l2_j)
       IN  IF ~cell.index_ok
           THEN /\ pc' = "index_panic"
                /\ UNCHANGED <<fd, td, resolved, i, j, wrapped>>
           ELSE \E outcome \in OverflowOutcomes(cell.overflow) :
                  IF outcome = "panic"
                  THEN /\ pc' = "overflow_panic"
                       /\ UNCHANGED <<fd, td, resolved, i, j, wrapped>>
                  ELSE /\ fd' = [fd EXCEPT ![i][j] = cell.value]
                       /\ td' = IF cell.is_tree
                                THEN [td EXCEPT ![cell.ni][cell.nj] = cell.value]
                                ELSE td
                       /\ resolved' = IF cell.is_tree
                                      THEN resolved \cup {<<cell.ni, cell.nj>>}
                                      ELSE resolved
                       /\ wrapped' = (wrapped \/ outcome = "wrap")
                       /\ IF j + 1 < jend
                          THEN i' = i /\ j' = j + 1 /\ pc' = "cell"
                          ELSE IF i + 1 < iend
                          THEN i' = i + 1 /\ j' = 1 /\ pc' = "cell"
                          ELSE i' = i /\ j' = j /\ pc' = "next"
    /\ UNCHANGED <<root_node, tree, insertion_cost, deletion_cost,
                   relabeling_cost, self, kx, ky, result>>

\* the two loops over the key roots: the next pair (x, y), or the return
\* of td[(self.post_order.len() - 1, other.post_order.len() - 1)]
NextPair ==
    /\ pc = "next"
    /\ IF ky + 1 < Len(Other.key_roots)
       THEN /\ ky' = ky + 1
            /\ kx' = kx
            /\ pc' = "forest"
            /\ UNCHANGED <<result, self>>
       ELSE IF kx + 1 < Len(Self.key_roots)
       THEN /\ kx' = kx + 1
            /\ ky' = 0
            /\ pc' = "forest"
            /\ UNCHANGED <<result, self>>
       ELSE /\ result' = Append(result,
                                td[Len(Self.post_order) - 1][Len(Other.post_order) - 1])
            /\ self' = IF self = 1 THEN 2 ELSE self
            /\ pc' = IF self = 1 THEN "call" ELSE "done"
            /\ UNCHANGED <<kx, ky>>
    /\ UNCHANGED <<root_node, tree, insertion_cost, deletion_cost,
                   relabeling_cost, td, resolved, fd, i, j, wrapped>>

Next == New \/ Call \/ ForestBorders \/ ForestCell \/ NextPair

\* the sample of the cost type: the small costs of the tests, and the
\* largest values of the type
CostValues == {0, 1, 3, U64Modulus \div 2, U64Max}

\* tree_edit_distance: self.weighted_tree_edit_distance(other, 1, 1, 1)
UnitCosts == {<<1, 1, 1>>}

\* equal insertion and deletion costs
SymmetricCosts == {<<c, c, r>> : c \in CostValues, r \in CostValues}

\* every cost triple, on the smallest trees
Init == InitWith(TinyTrees, CostValues \X CostValues \X CostValues)

Spec == Init /\ [][Next]_vars

InitSymmetric == InitWith(SmallTrees, SymmetricCosts)

SpecSymmetric == InitSymmetric /\ [][Next]_vars

\* unit costs, on the small trees and the trees of the tests
InitUnit == InitWith(SmallTrees \cup FixtureTrees, UnitCosts)

SpecUnit == InitUnit /\ [][Next]_vars

\* unit costs, on every shape
InitShape == InitWith(ShapeTrees, UnitCosts)

SpecShape == InitShape /\ [][Next]_vars

-----------------------------------------------------------------------------
(* The reference: the recursive definition of the forest edit distance *)

\* A forest is the sequence of the addresses of its roots, left to right.
\* Removing the right-most root leaves its children in its place.
RemoveRoot(h, forest) == Front(forest) \o h[Last(forest)].children

RECURSIVE ForestEditDistance(_, _, _, _, _, _, _)
\* the least cost of turning forest f1 of h1 into forest f2 of h2, over
\* the unbounded integers
ForestEditDistance(h1, f1, h2, f2, ins, del, rel) ==
    IF f1 = <<>> /\ f2 = <<>> THEN 0
    ELSE IF f2 = <<>>
    THEN ForestEditDistance(h1, RemoveRoot(h1, f1), h2, f2, ins, del, rel) + del
    ELSE IF f1 = <<>>
    THEN ForestEditDistance(h1, f1, h2, RemoveRoot(h2, f2), ins, del, rel) + ins
    ELSE LET v == Last(f1)
             w == Last(f2)
         IN  Min(Min(ForestEditDistance(h1, RemoveRoot(h1, f1), h2, f2,
                                        ins, del, rel) + del,
                     ForestEditDistance(h1, f1, h2, RemoveRoot(h2, f2),
                                        ins, del, rel) + ins),
                 ForestEditDistance(h1, Front(f1), h2, Front(f2), ins, del, rel)
                 + ForestEditDistance(h1, h1[v].children, h2, h2[w].children,
                                      ins, del, rel)
                 + (IF h1[v].label = h2[w].label THEN 0 ELSE rel))

\* the minimum cost of editing tree a into tree b (a, b in 1..2)
MinimumCost(a, b) ==
    ForestEditDistance(root_node[a], <<1>>, root_node[b], <<1>>,
                       insertion_cost, deletion_cost, relabeling_cost)

\* the call with receiver k has returned
Returned(k) == Len(result) >= k

Panicked == pc \in {"overflow_panic", "index_panic"}

Built(k) == tree[k] # NoTree

NodeCount(k) == Len(root_node[k])

IsLeaf(h, a) == h[a].children = <<>>

-----------------------------------------------------------------------------
(* Claims *)

\* C1: for every pair of trees and every triple of costs, the call returns
\* the minimum total cost of an edit sequence from the first tree to the
\* second, that is the value of the recursive forest edit distance on the
\* two whole trees, in both argument orders.
C1_ReturnsMinimumCost ==
    /\ ~Panicked
    /\ Returned(1) => result[1] = MinimumCost(1, 2)
    /\ Returned(2) => result[2] = MinimumCost(2, 1)

\* What the code does satisfy: a call in which no addition exceeded the
\* cost type returns the minimum cost.
ExactUnlessOverflow ==
    /\ pc # "index_panic"
    /\ ~wrapped =>
         /\ Returned(1) => result[1] = MinimumCost(1, 2)
         /\ Returned(2) => result[2] = MinimumCost(2, 1)

\* the end-to-end scenario of the tests: A[B, C, D[E]] against X[C, Y[Z]]
\* with unit costs gives 4 in both directions
EndToEndScenario ==
    (/\ pc = "done"
     /\ root_node[1] = FixtureABCDE
     /\ root_node[2] = FixtureXCYZ) => result = <<4, 4>>

\* C2: with unit costs, the distance is 0 exactly when the two trees are
\* the same ordered labeled tree.
C2_ZeroIffSameTree ==
    /\ ~Panicked
    /\ Returned(1) => (result[1] = 0 <=> root_node[1] = root_node[2])
    /\ Returned(2) => (result[2] = 0 <=> root_node[2] = root_node[1])

C2_Witness ==
    /\ pc = "done"
    /\ root_node[1] = FixtureSelf
    /\ root_node[2] = FixtureLeafX
    /\ result[1] # 0
    /\ result[2] # 0

\* C3: with equal insertion and deletion costs, the distance from T1 to T2
\* equals the distance from T2 to T1; the second call returns whenever the
\* first one did.
C3_CostSymmetry ==
    /\ pc = "done" => result[1] = result[2]
    /\ pc = "overflow_panic" => self = 1
    /\ pc # "index_panic"

C3_Witness ==
    /\ pc = "done"
    /\ NodeCount(1) = 3
    /\ NodeCount(2) = 2
    /\ IsLeaf(root_node[1], 2)
    /\ insertion_cost = 3
    /\ relabeling_cost = 1
    /\ ~wrapped
    /\ result[1] = result[2]
    /\ result[1] > 3

\* the labels of the nodes of tree k in post order
PostOrderLabels(k) ==
    [p \in 1 .. Len(tree[k].post_order) |->
        root_node[k][tree[k].post_order[p]].label]

\* C4 (as stated): for A[B, C[E, F], D] the post order
\* is B, E, F, C, D, A, left_most_leaf_descendant is [0,1,1,2,4,0] and
\* key_roots is [2,3,4,5].
C4_FixtureAsStated ==
    (Built(1) /\ root_node[1] = FixtureABCEFD) =>
        /\ PostOrderLabels(1) = <<"B", "E", "F", "C", "D", "A">>
        /\ tree[1].left_most_leaf_descendant = <<0, 1, 1, 2, 4, 0>>
        /\ tree[1].key_roots = <<2, 3, 4, 5>>

\* C4 (amended): for A[B, C[E, F], D] the post order is B, E, F, C, D, A,
\* left_most_leaf_descendant is [0,1,2,1,4,0] (the leaf F at index 2 is its
\* own left-most leaf, C at index 3 has E at index 1) and key_roots is
\* [2,3,4,5].
C4_Fixture ==
    (Built(1) /\ root_node[1] = FixtureABCEFD) =>
        /\ PostOrderLabels(1) = <<"B", "E", "F", "C", "D", "A">>
        /\ tree[1].left_most_leaf_descendant = <<0, 1, 2, 1, 4, 0>>
        /\ tree[1].key_roots = <<2, 3, 4, 5>>

C4_Witness == Built(1) /\ root_node[1] = FixtureABCEFD

BothSingleNodes == NodeCount(1) = 1 /\ NodeCount(2) = 1

SingleNodeDistance ==
    IF root_node[1][1].label = root_node[2][1].label THEN 0
    ELSE Min(relabeling_cost, insertion_cost + deletion_cost)

\* C5: for two single-node trees and any costs, the call returns 0 when
\* the labels are equal and min(rel, ins + del) when they differ, in both
\* argument orders.
C5_SingleNodes ==
    BothSingleNodes =>
        /\ ~Panicked
        /\ Returned(1) => result[1] = SingleNodeDistance
        /\ Returned(2) => result[2] = SingleNodeDistance

\* What the code does satisfy for single nodes: the claim, unless an
\* addition exceeded the cost type.
SingleNodesUnlessOverflow ==
    (BothSingleNodes /\ ~wrapped) =>
        /\ pc # "index_panic"
        /\ Returned(1) => result[1] = SingleNodeDistance
        /\ Returned(2) => result[2] = SingleNodeDistance

\* C6: no addition made while filling fd and td exceeds the cost type, for
\* all trees and all costs of the type: the call neither panics on an
\* overflow nor wraps, and returns the exact distance.
C6_NoOverflow ==
    /\ pc # "overflow_panic"
    /\ ~wrapped
    /\ Returned(1) => result[1] = MinimumCost(1, 2)

\* C7: no step of Tree::new or of the distance fails on an index: the
\* left-most leaves are never negative, the key roots are node indices,
\* and at every cell (i, j) of forest_distance(x, y) the node indices lie
\* in [l1, x] and [l2, y], the subtractions are not negative, di <= i - 1
\* and dj <= j - 1, and every fd and td coordinate is inside its table.
C7_IndicesInBounds ==
    /\ pc # "index_panic"
    /\ \A k \in 1 .. 2 : Built(k) =>
         /\ \A p \in 1 .. Len(tree[k].left_most_leaf_descendant) :
               tree[k].left_most_leaf_descendant[p] >= 0
         /\ \A p \in 1 .. Len(tree[k].key_roots) :
               InVec(tree[k].post_order, tree[k].key_roots[p])
    /\ pc \in {"forest", "cell"} =>
         /\ InVec(Self.key_roots, kx)
         /\ InVec(Other.key_roots, ky)
         /\ InVec(Self.left_most_leaf_descendant, key_root_1)
         /\ InVec(Other.left_most_leaf_descendant, key_root_2)
    /\ pc = "cell" =>
         LET cell == Current
         IN  /\ cell.ni >= l1_i /\ cell.ni <= key_root_1
             /\ cell.nj >= l2_j /\ cell.nj <= key_root_2
             /\ cell.di >= 0 /\ cell.di <= i - 1
             /\ cell.dj >= 0 /\ cell.dj <= j - 1
             /\ DOMAIN fd = 0 .. key_root_1 - l1_i + 1
             /\ \A r \in DOMAIN fd : DOMAIN fd[r] = 0 .. key_root_2 - l2_j + 1
             /\ i \in 1 .. key_root_1 - l1_i + 1
             /\ j \in 1 .. key_root_2 - l2_j + 1
             /\ DOMAIN td = 0 .. Len(Self.post_order) - 1
             /\ \A r \in DOMAIN td : DOMAIN td[r] = 0 .. Len(Other.post_order) - 1
             /\ cell.ni \in DOMAIN td
             /\ cell.nj \in DOMAIN td[cell.ni]
    /\ pc \in {"next", "done"} =>
         InMatrix(td, Len(Self.post_order) - 1, Len(Other.post_order) - 1)

C7_Witness ==
    /\ pc = "cell"
    /\ ~Current.is_tree
    /\ Current.di > 0
    /\ Current.dj > 0
    /\ Current.di < i - 1

\* C8: whenever the forest branch at a cell reads td[ni][nj], that cell of
\* td has already been written by the full-subtree branch, in an earlier
\* key-root pair or earlier in the same forest_distance call.
C8_TdResolvedBeforeRead ==
    (pc = "cell" /\ Current.index_ok /\ ~Current.is_tree) =>
        <<Current.ni, Current.nj>> \in resolved

C8_Witness ==
    /\ pc = "cell"
    /\ ~Current.is_tree
    /\ <<Current.ni, Current.nj>> \in resolved
    /\ kx > 0
    /\ ky > 0
    /\ td[Current.ni][Current.nj] > 0

\* the node at post-order index k of tree t is a child of its parent at a
\* position other than the first
HasEarlierSibling(t, k) ==
    \E a \in 1 .. Len(root_node[t]) :
        \E c \in 2 .. Len(root_node[t][a].children) :
            root_node[t][a].children[c] = At(tree[t].post_order, k)

InKeyRoots(t, k) ==
    \E p \in 1 .. Len(tree[t].key_roots) : tree[t].key_roots[p] = k

\* C9: key_roots is strictly ascending; an index is in it exactly when its
\* node is the root or a child at a position other than the first; its
\* last element is the root's index, and it is never empty.
C9_KeyRoots ==
    \A t \in 1 .. 2 : Built(t) =>
        LET n == Len(tree[t].post_order)
            kr == tree[t].key_roots
        IN  /\ \A p \in 1 .. Len(kr) - 1 : kr[p] < kr[p + 1]
            /\ \A k \in 0 .. n - 1 :
                  InKeyRoots(t, k) <=> (k = n - 1 \/ HasEarlierSibling(t, k))
            /\ \A p \in 1 .. Len(kr) : kr[p] \in 0 .. n - 1
            /\ kr # <<>>
            /\ Last(kr) = n - 1

C9_Witness ==
    /\ Built(2)
    /\ Len(tree[2].post_order) = 4
    /\ Len(tree[2].key_roots) = 2
    /\ tree[2].key_roots[1] = 1

RECURSIVE FirstChildLeaf(_, _)
\* the leaf reached by following the first-child chain from node a
FirstChildLeaf(h, a) ==
    IF h[a].children = <<>> THEN a ELSE FirstChildLeaf(h, h[a].children[1])

\* the post-order index of a node: where post_order holds its address
IndexOf(t, a) == CHOOSE k \in 0 .. Len(tree[t].post_order) - 1 :
                    At(tree[t].post_order, k) = a

\* C10: left_most_leaf_descendant[i] is the post-order index of the leaf
\* reached by following the first-child chain from node i; it is at most
\* i, equal to i exactly when node i is a leaf, and 0 for the root.
C10_LeftMostLeaf ==
    \A t \in 1 .. 2 : Built(t) =>
        LET n == Len(tree[t].post_order)
            lmld == tree[t].left_most_leaf_descendant
        IN  /\ Len(lmld) = n
            /\ \A k \in 0 .. n - 1 :
                  LET a == At(tree[t].post_order, k)
                  IN  /\ At(lmld, k) = IndexOf(t, FirstChildLeaf(root_node[t], a))
                      /\ At(lmld, k) <= k
                      /\ At(lmld, k) = k <=> IsLeaf(root_node[t], a)
            /\ At(lmld, n - 1) = 0

C10_Witness ==
    /\ Built(1)
    /\ \E k \in 1 .. Len(tree[1].post_order) - 2 :
          /\ At(tree[1].left_most_leaf_descendant, k) < k
          /\ At(tree[1].left_most_leaf_descendant, k) > 0

=============================================================================
